---- MODULE Spec2Model ----
(***************************************************************************)
(* Model of the layout resolution engine of mac2winKeyboard.py: class      *)
(* KeylayoutParser and the call sequence of process_input_keylayout.       *)
(*                                                                         *)
(* Python lists are sequences (index i of the source is index i+1 here),   *)
(* dicts are functions whose DOMAIN is the set of keys.  The parsed XML    *)
(* tree is flattened in document order: one entry per <modifier>, <key>    *)
(* and <when> element, carrying the attributes of its ancestors that       *)
(* parse() reads.  Attribute values that parse() passes through int() are  *)
(* integers.                                                               *)
(***************************************************************************)
EXTENDS Integers, Sequences, FiniteSets, TLC

VARIABLES
    tree,                \* the parsed source tree (input, never written)
    key_list,            \* raw keys; the lists in it are mutated in place
    action_list,         \* actions; the lists in it are mutated in place
    output_list,         \* references (indices) into key_list
    action_basekeys,     \* {action id: base key}
    deadkeys,            \* {state: dead key glyph}
    key_dict,            \* {dead key: [(base key, output)]}
    output_dict,         \* {key code: {keymap index: output}}
    empty_actions,       \* ids of actions without immediate output
    keymap_assignments,  \* {label: keymap index}
    number_of_keymaps,
    pc,                  \* next call of process_input_keylayout
    err,                 \* exception that ended the run, or "none"
    lookup,              \* last getOutput call: <<key code, label, output>>
    output               \* rows returned by writeKeyTable

vars == <<tree, key_list, action_list, output_list, action_basekeys, deadkeys,
          key_dict, output_dict, empty_actions, keymap_assignments,
          number_of_keymaps, pc, err, lookup, output>>

fields == <<key_list, action_list, output_list, action_basekeys, deadkeys,
            key_dict, output_dict, empty_actions, keymap_assignments,
            number_of_keymaps>>

----------------------------------------------------------------------------
(* Python helpers *)

EmptyDict == [x \in {} |-> x]

\* d[k] = v
Put(d, k, v) == [x \in DOMAIN d \cup {k} |-> IF x = k THEN v ELSE d[x]]

\* x in list
InList(x, list) == \E n \in 1..Len(list) : list[n] = x

RECURSIVE SeqMax(_)
SeqMax(s) ==
    IF Len(s) = 1 THEN s[1]
    ELSE LET m == SeqMax(Tail(s)) IN IF s[1] > m THEN s[1] ELSE m

NotDefined == "-1"
Space == "0020"

----------------------------------------------------------------------------
(* parse: the canonical modifier classifier *)

Flags == {"anyShift", "anyOption", "command", "caps",
          "anyShift?", "anyOption?", "command?", "caps?"}

\* The eight checkSet calls of parse, in call order.
LabelTable == <<
    [string |-> "default",   maxset |-> {"command?", "caps?"},
                             minset |-> {}],
    [string |-> "shift",     maxset |-> {"anyShift", "caps?", "command?"},
                             minset |-> {"anyShift"}],
    [string |-> "alt",       maxset |-> {"anyOption", "caps?", "command?"},
                             minset |-> {"anyOption"}],
    [string |-> "altshift",  maxset |-> {"anyShift", "anyOption", "caps?", "command?"},
                             minset |-> {"anyShift", "anyOption"}],
    [string |-> "cmd",       maxset |-> {"command", "caps?", "anyShift?", "anyOption?"},
                             minset |-> {"command"}],
    [string |-> "caps",      maxset |-> {"caps", "anyShift?", "command?"},
                             minset |-> {"caps"}],
    [string |-> "cmdcaps",   maxset |-> {"command", "caps", "anyShift?"},
                             minset |-> {"command", "caps"}],
    [string |-> "shiftcaps", maxset |-> {"anyShift", "caps", "anyOption?"},
                             minset |-> {"anyShift", "caps"}] >>

Labels == {LabelTable[n].string : n \in 1..Len(LabelTable)}

\* Variants: the first matching slot keeps the label; the maximal set is
\* not tested.
checkSet_FirstWins(ka, states, keymap, maxset, minset, string) ==
    IF states \subseteq maxset /\ minset \subseteq states /\ string \notin DOMAIN ka
    THEN Put(ka, string, keymap)
    ELSE ka

checkSet_NoMax(ka, states, keymap, maxset, minset, string) ==
    IF minset \subseteq states
    THEN Put(ka, string, keymap)
    ELSE ka

checkSet(ka, states, keymap, maxset, minset, string) ==
    IF states \subseteq maxset /\ minset \subseteq states
    THEN Put(ka, string, keymap)
    ELSE ka

\* The checkSet calls of one <modifier> child, from call n on.
RECURSIVE checkSets(_, _, _, _)
checkSets(ka, states, keymap, n) ==
    IF n > Len(LabelTable) THEN ka
    ELSE checkSets(checkSet(ka, states, keymap, LabelTable[n].maxset,
                            LabelTable[n].minset, LabelTable[n].string),
                   states, keymap, n + 1)

\* The loop over the <modifier> children of all keyMapSelect elements.
RECURSIVE parseKeyMapSelect(_, _, _)
parseKeyMapSelect(modifiers, n, ka) ==
    IF n > Len(modifiers) THEN ka
    ELSE parseKeyMapSelect(modifiers, n + 1,
            checkSets(ka, modifiers[n].keys, modifiers[n].mapIndex, 1))

\* idx_list: one entry per <modifier> child.
parseIdxList(modifiers) == [n \in 1..Len(modifiers) |-> modifiers[n].mapIndex]

\* Key(...).data() of every <key>: [keymap_set, key_index, key_code, key_type, result]
parseKeyMapSet(keys) ==
    [n \in 1..Len(keys) |->
        <<keys[n].id, keys[n].index, keys[n].code, keys[n].attr, keys[n].value>>]

\* Action(...).data() of every <when>: [action, state, action_type, result]
parseActions(whens) ==
    [n \in 1..Len(whens) |->
        <<whens[n].id, whens[n].state, whens[n].attr, whens[n].value>>]

\* action_basekeys filled while the <when> elements are read.
RECURSIVE parseBasekeys(_, _, _)
parseBasekeys(al, n, ab) ==
    IF n > Len(al) THEN ab
    ELSE parseBasekeys(al, n + 1,
            IF al[n][2] = "none" /\ al[n][3] = "output"
            THEN Put(ab, al[n][1], al[n][4])
            ELSE ab)

parse ==
    /\ pc = "parse"
    /\ keymap_assignments' = parseKeyMapSelect(tree.modifiers, 1, keymap_assignments)
    /\ key_list' = key_list \o parseKeyMapSet(tree.keys)
    /\ action_list' = action_list \o parseActions(tree.whens)
    /\ action_basekeys' = parseBasekeys(parseActions(tree.whens), 1, action_basekeys)
    /\ IF Len(tree.modifiers) = 0
       THEN \* max() of an empty list
            /\ err' = "ValueError"
            /\ pc' = "raised"
            /\ UNCHANGED number_of_keymaps
       ELSE /\ number_of_keymaps' = SeqMax(parseIdxList(tree.modifiers))
            /\ pc' = "findDeadkeys"
            /\ UNCHANGED err
    /\ UNCHANGED <<tree, output_list, deadkeys, key_dict, output_dict,
                   empty_actions, lookup, output>>

----------------------------------------------------------------------------
(* findDeadkeys *)

\* deadkey_id = 0 before the loop: no action id (a string) equals it.
NoDeadkeyId == {}

\* Variant: only entries of kind output register a dead key.
RECURSIVE scanActions_OutputOnly(_, _, _)
scanActions_OutputOnly(al, n, acc) ==
    IF n > Len(al) THEN acc
    ELSE LET key_id == al[n][1]
             state == al[n][2]
             key_type == al[n][3]
             result == al[n][4]
             deadkey_id ==
                IF state = "none" /\ key_type = "output" /\ result = Space
                THEN {key_id} ELSE acc.deadkey_id
             isEmpty == state = "none" /\ key_type = "next"
         IN  scanActions_OutputOnly(al, n + 1,
                [deadkey_id |-> deadkey_id,
                 deadkeys |->
                    IF key_id \in deadkey_id /\ key_type = "output" /\ result # Space
                    THEN Put(acc.deadkeys, state, result)
                    ELSE acc.deadkeys,
                 key_list |->
                    IF isEmpty THEN Append(acc.key_list, <<key_id, result>>)
                    ELSE acc.key_list,
                 empty_actions |->
                    IF isEmpty THEN Append(acc.empty_actions, key_id)
                    ELSE acc.empty_actions])

\* The first loop; acc = [deadkey_id, deadkeys, key_list, empty_actions],
\* deadkey_id being {} or {action id}, key_list the local list of
\* [key_id, result] pairs.
RECURSIVE scanActions(_, _, _)
scanActions(al, n, acc) ==
    IF n > Len(al) THEN acc
    ELSE LET key_id == al[n][1]
             state == al[n][2]
             key_type == al[n][3]
             result == al[n][4]
             deadkey_id ==
                IF state = "none" /\ key_type = "output" /\ result = Space
                THEN {key_id} ELSE acc.deadkey_id
             isEmpty == state = "none" /\ key_type = "next"
         IN  scanActions(al, n + 1,
                [deadkey_id |-> deadkey_id,
                 deadkeys |->
                    IF key_id \in deadkey_id /\ result # Space
                    THEN Put(acc.deadkeys, state, result)
                    ELSE acc.deadkeys,
                 key_list |->
                    IF isEmpty THEN Append(acc.key_list, <<key_id, result>>)
                    ELSE acc.key_list,
                 empty_actions |->
                    IF isEmpty THEN Append(acc.empty_actions, key_id)
                    ELSE acc.empty_actions])

\* The second loop: a target state that names a dead key is replaced by
\* the dead key.
resolveStates(kl, dk) ==
    [n \in 1..Len(kl) |->
        IF kl[n][2] \in DOMAIN dk THEN <<kl[n][1], dk[kl[n][2]]>> ELSE kl[n]]

\* d.update(dict(pairs)): a later pair overrides an earlier one
RECURSIVE updatePairs(_, _, _)
updatePairs(d, pairs, n) ==
    IF n > Len(pairs) THEN d
    ELSE updatePairs(Put(d, pairs[n][1], pairs[n][2]), pairs, n + 1)

findDeadkeys ==
    /\ pc = "findDeadkeys"
    /\ LET acc == scanActions(action_list, 1,
                    [deadkey_id |-> NoDeadkeyId, deadkeys |-> deadkeys,
                     key_list |-> <<>>, empty_actions |-> empty_actions])
       IN  /\ deadkeys' = acc.deadkeys
           /\ empty_actions' = acc.empty_actions
           /\ action_basekeys' =
                updatePairs(action_basekeys,
                            resolveStates(acc.key_list, acc.deadkeys), 1)
    /\ pc' = "matchActions"
    /\ UNCHANGED <<tree, key_list, action_list, output_list, key_dict,
                   output_dict, keymap_assignments, number_of_keymaps, err,
                   lookup, output>>

----------------------------------------------------------------------------
(* matchActions *)

\* acc = [action_list, action_basekeys]
RECURSIVE matchLoop(_, _)
matchLoop(n, acc) ==
    IF n > Len(acc.action_list) THEN acc
    ELSE LET i == acc.action_list[n]
             ab == IF i[2] = "none" /\ i[3] = "output"
                   THEN Put(acc.action_basekeys, i[1], i[4])
                   ELSE acc.action_basekeys
             j == IF i[1] \in DOMAIN ab THEN Append(i, ab[i[1]]) ELSE i
         IN  matchLoop(n + 1,
                [action_list |-> [acc.action_list EXCEPT ![n] = j],
                 action_basekeys |-> ab])

matchActions ==
    /\ pc = "matchActions"
    /\ LET acc == matchLoop(1, [action_list |-> action_list,
                                action_basekeys |-> action_basekeys])
       IN  /\ action_list' = acc.action_list
           /\ action_basekeys' = acc.action_basekeys
    /\ pc' = "findOutputs"
    /\ UNCHANGED <<tree, key_list, output_list, deadkeys, key_dict,
                   output_dict, empty_actions, keymap_assignments,
                   number_of_keymaps, err, lookup, output>>

----------------------------------------------------------------------------
(* findOutputs *)

\* One key of the loop: the list i is marked and rewritten in place.
findOutput(i, ea, ab) ==
    LET marked == IF InList(i[5], ea) THEN Append(i, "@") ELSE i
    IN  IF i[5] \in DOMAIN ab
        THEN [marked EXCEPT ![4] = "output", ![5] = ab[i[5]]]
        ELSE marked

\* The method is called once by the pipeline and may be called again on
\* the finished instance: the second call works on the lists the first
\* one left behind.
findOutputs ==
    /\ \/ pc = "findOutputs"
       \/ pc = "done" /\ lookup = <<>>
    /\ key_list' = [n \in 1..Len(key_list) |->
                        findOutput(key_list[n], empty_actions, action_basekeys)]
    /\ output_list' = output_list \o [n \in 1..Len(key_list) |-> n]
    /\ pc' = IF pc = "findOutputs" THEN "makeDeadKeyTable"
                                   ELSE "makeOutputDict2"
    /\ UNCHANGED <<tree, action_list, action_basekeys, deadkeys, key_dict,
                   output_dict, empty_actions, keymap_assignments,
                   number_of_keymaps, err, lookup, output>>

----------------------------------------------------------------------------
(* makeDeadKeyTable *)

\* Variant: the space key is not listed as a base key.
RECURSIVE deadKeyLoop_SkipSpace(_, _, _)
deadKeyLoop_SkipSpace(n, dk, acc) ==
    IF n > Len(acc.action_list) THEN acc
    ELSE LET i0 == acc.action_list[n]
             i == IF i0[2] \in DOMAIN dk THEN Append(i0, dk[i0[2]]) ELSE i0
             kd == acc.key_dict
         IN  deadKeyLoop_SkipSpace(n + 1, dk,
                [action_list |-> [acc.action_list EXCEPT ![n] = i],
                 key_dict |->
                    IF Len(i) = 6 /\ i[5] # Space
                    THEN IF i[6] \in DOMAIN kd
                         THEN Put(kd, i[6], Append(kd[i[6]], <<i[5], i[4]>>))
                         ELSE Put(kd, i[6], << <<i[5], i[4]>> >>)
                    ELSE kd])

\* Variant: a new pair is put in front of the composition list.
RECURSIVE deadKeyLoop_Prepend(_, _, _)
deadKeyLoop_Prepend(n, dk, acc) ==
    IF n > Len(acc.action_list) THEN acc
    ELSE LET i0 == acc.action_list[n]
             i == IF i0[2] \in DOMAIN dk THEN Append(i0, dk[i0[2]]) ELSE i0
             kd == acc.key_dict
         IN  deadKeyLoop_Prepend(n + 1, dk,
                [action_list |-> [acc.action_list EXCEPT ![n] = i],
                 key_dict |->
                    IF Len(i) = 6
                    THEN IF i[6] \in DOMAIN kd
                         THEN Put(kd, i[6], << <<i[5], i[4]>> >> \o kd[i[6]])
                         ELSE Put(kd, i[6], << <<i[5], i[4]>> >>)
                    ELSE kd])

\* acc = [action_list, key_dict]
RECURSIVE deadKeyLoop(_, _, _)
deadKeyLoop(n, dk, acc) ==
    IF n > Len(acc.action_list) THEN acc
    ELSE LET i0 == acc.action_list[n]
             i == IF i0[2] \in DOMAIN dk THEN Append(i0, dk[i0[2]]) ELSE i0
             kd == acc.key_dict
         IN  deadKeyLoop(n + 1, dk,
                [action_list |-> [acc.action_list EXCEPT ![n] = i],
                 key_dict |->
                    IF Len(i) = 6
                    THEN IF i[6] \in DOMAIN kd
                         THEN Put(kd, i[6], Append(kd[i[6]], <<i[5], i[4]>>))
                         ELSE Put(kd, i[6], << <<i[5], i[4]>> >>)
                    ELSE kd])

makeDeadKeyTable ==
    /\ pc = "makeDeadKeyTable"
    /\ LET acc == deadKeyLoop(1, deadkeys, [action_list |-> action_list,
                                            key_dict |-> key_dict])
       IN  /\ action_list' = acc.action_list
           /\ key_dict' = acc.key_dict
    /\ pc' = "makeOutputDict"
    /\ UNCHANGED <<tree, key_list, output_list, action_basekeys, deadkeys,
                   output_dict, empty_actions, keymap_assignments,
                   number_of_keymaps, err, lookup, output>>

----------------------------------------------------------------------------
(* makeOutputDict *)

\* list.remove(x): drops the first element equal to x.  ol holds indices
\* into kl and x is an element of the list, so a match exists.
RECURSIVE removeFirst(_, _, _)
removeFirst(ol, kl, x) ==
    IF Len(ol) = 0 THEN ol
    ELSE IF kl[ol[1]] = x THEN Tail(ol)
    ELSE <<ol[1]>> \o removeFirst(Tail(ol), kl, x)

\* {0: '-1', ..., number: '-1'}; the assignment to output_dict[key_id] is
\* inside the range loop and is skipped when the range is empty.
initKey(od, key_id, number) ==
    IF number + 1 > 0
    THEN Put(od, key_id, [k \in 0..number |-> NotDefined])
    ELSE od

\* The filtering loop: a list iterator is a position n in the list that
\* is being shrunk.  acc = [output_list, output_dict]
RECURSIVE filterLoop(_, _, _, _, _)
filterLoop(n, kl, first_keymapset, number, acc) ==
    IF n > Len(acc.output_list) THEN acc
    ELSE LET i == kl[acc.output_list[n]]
         IN  filterLoop(n + 1, kl, first_keymapset, number,
                [output_list |->
                    IF i[1] # first_keymapset
                    THEN removeFirst(acc.output_list, kl, i)
                    ELSE acc.output_list,
                 output_dict |-> initKey(acc.output_dict, i[3], number)])

keyOutput(i) == IF Len(i) = 5 THEN i[5] ELSE i[5] \o "@"

\* The second loop; acc = [output_dict, err]
RECURSIVE fillLoop(_, _, _, _)
fillLoop(n, ol, kl, acc) ==
    IF n > Len(ol) \/ acc.err # "none" THEN acc
    ELSE LET i == kl[ol[n]]
             keymap_id == i[2]
             key_id == i[3]
             od == acc.output_dict
         IN  IF key_id \notin DOMAIN od
             THEN [acc EXCEPT !.err = "KeyError"]
             ELSE fillLoop(n + 1, ol, kl,
                    [acc EXCEPT !.output_dict =
                        Put(od, key_id, Put(od[key_id], keymap_id, keyOutput(i)))])

makeOutputDict ==
    /\ pc \in {"makeOutputDict", "makeOutputDict2"}
    /\ IF Len(output_list) = 0
       THEN \* self.output_list[0]
            /\ err' = "IndexError"
            /\ pc' = "raised"
            /\ UNCHANGED <<output_list, output_dict>>
       ELSE LET first_keymapset == key_list[output_list[1]][1]
                filtered == filterLoop(1, key_list, first_keymapset,
                                number_of_keymaps,
                                [output_list |-> output_list,
                                 output_dict |-> output_dict])
                filled == fillLoop(1, filtered.output_list, key_list,
                                [output_dict |-> filtered.output_dict,
                                 err |-> "none"])
            IN  /\ output_list' = filtered.output_list
                /\ output_dict' = filled.output_dict
                /\ err' = filled.err
                /\ pc' = IF filled.err # "none" THEN "raised"
                         ELSE IF pc = "makeOutputDict" THEN "done"
                         ELSE "done2"
    /\ UNCHANGED <<tree, key_list, action_list, action_basekeys, deadkeys,
                   key_dict, empty_actions, keymap_assignments,
                   number_of_keymaps, lookup, output>>

----------------------------------------------------------------------------
(* getOutput *)

\* Variant: a label without assignment reads the first keymap.
getOutput_FirstKeymap(ka, key_output_dict, state) ==
    IF state \notin DOMAIN ka
    THEN IF 0 \in DOMAIN key_output_dict THEN key_output_dict[0] ELSE NotDefined
    ELSE IF ka[state] \notin DOMAIN key_output_dict THEN NotDefined
    ELSE key_output_dict[ka[state]]

getOutput(ka, key_output_dict, state) ==
    IF state \notin DOMAIN ka THEN NotDefined
    ELSE IF ka[state] \notin DOMAIN key_output_dict THEN NotDefined
    ELSE key_output_dict[ka[state]]

\* A lookup of the emitter: a key of output_dict under a canonical label.
GetOutput ==
    /\ pc = "done"
    /\ \E key \in DOMAIN output_dict, state \in Labels :
            lookup' = <<key, state,
                        getOutput(keymap_assignments, output_dict[key], state)>>
    /\ UNCHANGED <<tree, key_list, action_list, output_list, action_basekeys,
                   deadkeys, key_dict, output_dict, empty_actions,
                   keymap_assignments, number_of_keymaps, pc, err, output>>

----------------------------------------------------------------------------
(* writeKeyTable *)

\* klc_data: the Windows scan codes with their virtual keys, in the order
\* of sorted(win_keycodes.items()).
win_keycodes == << <<"02", "1">>, <<"03", "2">>, <<"04", "3">>, <<"05", "4">> >>

\* int(win_kc_hex, 16) on the scan codes of win_keycodes.
int16 == ("02" :> 2 @@ "03" :> 3 @@ "04" :> 4 @@ "05" :> 5)

\* klc_data: Windows scan code -> macOS key code; scan code 5 has no
\* macOS equivalent.
win_to_mac_keycodes == (2 :> 1 @@ 3 :> 2 @@ 4 :> 3)

\* Variant: the shift output is compared first.
capsFlag_ShiftFirst(default_output, shift_output, caps_output) ==
    IF caps_output = shift_output THEN "1"
    ELSE IF caps_output = default_output THEN "0"
    ELSE "SGCap"

\* keytable[3]
capsFlag(default_output, shift_output, caps_output) ==
    IF caps_output = default_output THEN "0"
    ELSE IF caps_output = shift_output THEN "1"
    ELSE "SGCap"

\* The rows of one key: the columns keytable[0..9] and, for SGCap, the
\* columns of the second row.  The trailing comment column, a rendering
\* of the same outputs by char_description, is not represented.
keytable(win_kc_hex, win_kc_name, ka, outputs) ==
    LET default_output == getOutput(ka, outputs, "default")
        shift_output == getOutput(ka, outputs, "shift")
        alt_output == getOutput(ka, outputs, "alt")
        altshift_output == getOutput(ka, outputs, "altshift")
        caps_output == getOutput(ka, outputs, "caps")
        cmd_output == getOutput(ka, outputs, "cmd")
        cmdcaps_output == getOutput(ka, outputs, "cmdcaps")
        shiftcaps_output == getOutput(ka, outputs, "shiftcaps")
        flag == capsFlag(default_output, shift_output, caps_output)
        row == <<win_kc_hex, win_kc_name, "", flag, default_output,
                 shift_output, cmd_output, cmdcaps_output, alt_output,
                 altshift_output>>
    IN  IF flag = "SGCap"
        THEN <<row, <<"-1", "-1", "", "0", caps_output, shiftcaps_output,
                      "", "", "", "">> >>
        ELSE <<row>>

\* The loop over the scan codes, from position n on.
RECURSIVE writeKeyLoop(_, _, _, _)
writeKeyLoop(n, ka, od, acc) ==
    IF n > Len(win_keycodes) THEN acc
    ELSE LET win_kc_hex == win_keycodes[n][1]
             win_kc_name == win_keycodes[n][2]
             win_kc_int == int16[win_kc_hex]
         IN  IF win_kc_int \notin DOMAIN win_to_mac_keycodes
             THEN writeKeyLoop(n + 1, ka, od, acc)
             ELSE IF win_to_mac_keycodes[win_kc_int] \notin DOMAIN od
             THEN writeKeyLoop(n + 1, ka, od, acc)
             ELSE writeKeyLoop(n + 1, ka, od,
                    acc \o keytable(win_kc_hex, win_kc_name, ka,
                                    od[win_to_mac_keycodes[win_kc_int]]))

\* Called by the emitter on the finished instance.
writeKeyTable ==
    /\ pc = "done"
    /\ lookup = <<>>
    /\ output' = writeKeyLoop(1, keymap_assignments, output_dict, <<>>)
    /\ pc' = "written"
    /\ UNCHANGED <<tree, key_list, action_list, output_list, action_basekeys,
                   deadkeys, key_dict, output_dict, empty_actions,
                   keymap_assignments, number_of_keymaps, err, lookup>>

----------------------------------------------------------------------------
(* Source trees *)

MaxSlots == 3
MaxSetKeys == 3
MaxRefKeys == 2
MaxWhens == 3
MaxCapsKeys == 4

SeqsUpTo(S, max) == UNION {[1..n -> S] : n \in 0..max}

\* Elements carrying the same id come from one parent element: they are
\* contiguous in document order.
Grouped(s) ==
    \A i, k \in 1..Len(s) :
        (i < k /\ s[i].id = s[k].id) => \A j \in i..k : s[j].id = s[i].id

Modifier(mapIndex, keys) == [mapIndex |-> mapIndex, keys |-> keys]
Key(id, index, code, attr, value) ==
    [id |-> id, index |-> index, code |-> code, attr |-> attr, value |-> value]
When(id, state, attr, value) ==
    [id |-> id, state |-> state, attr |-> attr, value |-> value]

Tree(modifiers, keys, whens) ==
    [modifiers |-> modifiers, keys |-> keys, whens |-> whens]

MapIndexes == {0, 1}

\* default, shift, shift, no label
SlotFlagSets == {{}, {"anyShift"}, {"anyShift", "caps?"},
                 {"anyShift", "anyOption", "caps"}}

TwoSlots == <<Modifier(0, {}), Modifier(1, {"anyShift"})>>

TwoKeys == <<Key("A", 0, 1, "output", "0061"), Key("A", 1, 1, "output", "0041")>>

\* One keyMapSelect with one modifier, every flag set.
ClassifierTrees ==
    {Tree(<<Modifier(m, fs)>>, TwoKeys, <<>>) : m \in MapIndexes, fs \in SUBSET Flags}

\* Several modifier-state slots, or none.
SlotTrees ==
    {Tree(ms, TwoKeys, <<>>) :
        ms \in SeqsUpTo({Modifier(m, fs) : m \in MapIndexes, fs \in SlotFlagSets},
                        MaxSlots)}

\* Several keymap sets; the output of a key names its set.
SetKeys ==
    {Key("A", x, c, "output", "0061") : x \in MapIndexes, c \in {1, 2}}
    \cup {Key("B", x, c, "output", "0062") : x \in MapIndexes, c \in {1, 2}}

\* A keymap set defines a key code once per keymap index.
Unique(s) ==
    \A i, k \in 1..Len(s) :
        (i # k /\ s[i].id = s[k].id) =>
            (s[i].index # s[k].index \/ s[i].code # s[k].code)

KeymapSetTrees ==
    {Tree(TwoSlots, ks, <<>>) :
        ks \in {s \in SeqsUpTo(SetKeys, MaxSetKeys) : Grouped(s) /\ Unique(s)}}

\* One keymap set whose keys are literal or refer to an action.
Circumflex ==
    <<When("sp", "none", "output", Space), When("sp", "s1", "output", "0302"),
      When("a", "none", "output", "0061"), When("a", "s1", "output", "00e2"),
      When("dk", "none", "next", "s1")>>

\* Action ids that read like codepoints.
Coincide ==
    <<When("a", "none", "output", "0061"),
      When("0061", "none", "output", "0062"),
      When("0062", "none", "next", "s1")>>

RefKeys ==
    {Key("A", x, c, "output", "0061") : x \in MapIndexes, c \in {1, 2}}
    \cup {Key("A", x, 1, "action", a) : x \in MapIndexes, a \in {"a", "dk", "zz"}}

KeyRefTrees ==
    {Tree(TwoSlots, ks, ws) :
        ks \in SeqsUpTo(RefKeys, MaxRefKeys), ws \in {Circumflex, Coincide}}

\* The orders in which a document can declare the circumflex layout, with
\* or without a key that enters the state; the none-state entry of the
\* space action comes first in its action.
CircumflexOrders ==
    {s \in UNION {[1..n -> {Circumflex[k] : k \in 1..5}] : n \in {4, 5}} :
        /\ Grouped(s)
        /\ \A k \in 1..4 : \E n \in 1..Len(s) : s[n] = Circumflex[k]
        /\ \A m, n \in 1..Len(s) : m # n => s[m] # s[n]
        /\ \A m, n \in 1..Len(s) :
                (s[m] = Circumflex[1] /\ s[n] = Circumflex[2]) => m < n}

CircumflexKeys ==
    <<Key("A", 0, 1, "action", "a"), Key("A", 1, 1, "action", "dk")>>

CircumflexTrees == {Tree(TwoSlots, CircumflexKeys, ws) : ws \in CircumflexOrders}

ActionKeys ==
    <<Key("A", 0, 1, "action", "a"), Key("A", 1, 1, "action", "b")>>

\* Arbitrary action definitions.
Whens ==
    {When(a, st, "output", r) :
        a \in {"a", "b"}, st \in {"none", "s1"}, r \in {Space, "0302"}}
    \cup {When(a, "none", "next", "s1") : a \in {"a", "b"}}

ActionTrees ==
    {Tree(TwoSlots, ActionKeys, ws) :
        ws \in {s \in SeqsUpTo(Whens, MaxWhens) : Grouped(s)}}

\* default, shift, caps and shiftcaps slots.
CapsSlots == <<Modifier(0, {}), Modifier(1, {"anyShift"}),
               Modifier(2, {"caps"}), Modifier(3, {"anyShift", "caps"})>>

\* <key> places of one keymap set: (keyMap index, key code).
CapsPlaces == {<<x, c>> : x \in {0, 1, 2, 3}, c \in {1, 2}}

\* The keys at the places P with the outputs v, keyMap by keyMap.
RECURSIVE CapsKeys(_, _)
CapsKeys(P, v) ==
    IF P = {} THEN <<>>
    ELSE LET p == CHOOSE p \in P :
                    \A q \in P : p[1] < q[1] \/ (p[1] = q[1] /\ p[2] <= q[2])
         IN  <<Key("A", p[1], p[2], "output", v[p])>> \o CapsKeys(P \ {p}, v)

\* Keys with a lower-case or upper-case output under some of the four
\* slots.
CapsTrees ==
    {Tree(CapsSlots, CapsKeys(P, v), <<>>) :
        <<P, v>> \in UNION {{<<P, v>> : v \in [P -> {"0061", "0041"}]} :
            P \in {P \in SUBSET CapsPlaces : Cardinality(P) <= MaxCapsKeys}}}

Trees ==
    ClassifierTrees \cup SlotTrees \cup KeymapSetTrees \cup KeyRefTrees
    \cup CircumflexTrees \cup ActionTrees \cup CapsTrees

----------------------------------------------------------------------------
(* process_input_keylayout *)

Init ==
    /\ tree \in Trees
    /\ key_list = <<>>
    /\ action_list = <<>>
    /\ output_list = <<>>
    /\ action_basekeys = EmptyDict
    /\ deadkeys = EmptyDict
    /\ key_dict = EmptyDict
    /\ output_dict = EmptyDict
    /\ empty_actions = <<>>
    /\ keymap_assignments = EmptyDict
    /\ number_of_keymaps = 0
    /\ pc = "parse"
    /\ err = "none"
    /\ lookup = <<>>
    /\ output = <<>>

Next ==
    \/ parse
    \/ findDeadkeys
    \/ matchActions
    \/ findOutputs
    \/ makeDeadKeyTable
    \/ makeOutputDict
    \/ GetOutput
    \/ writeKeyTable

Spec == Init /\ [][Next]_vars

----------------------------------------------------------------------------
(* Properties *)

AfterParse == pc \notin {"parse", "raised"} \/ (pc = "raised" /\ err # "none")
AfterFindDeadkeys == pc \in {"matchActions", "findOutputs", "makeDeadKeyTable",
                             "makeOutputDict", "done"}
AfterMatchActions == pc \in {"findOutputs", "makeDeadKeyTable",
                             "makeOutputDict", "done"}
AfterFindOutputs == pc \in {"makeDeadKeyTable", "makeOutputDict", "done"}
AfterMakeDeadKeyTable == pc \in {"makeOutputDict", "done"}

KeymapSets == {tree.keys[n].id : n \in 1..Len(tree.keys)}
FirstKeymapSet == tree.keys[1].id

\* The entries of key_list that belong to the first keymap set and define
\* key code c at keymap index k.
FirstSetEntries(c, k) ==
    {n \in 1..Len(key_list) :
        key_list[n][1] = FirstKeymapSet /\ key_list[n][3] = c /\ key_list[n][2] = k}

Last(S) == CHOOSE n \in S : \A m \in S : m <= n

\* C1: with two or more keymap sets, after findOutputs and makeOutputDict
\* no KeyDefinition of a later keymap set is left in output_list and every
\* value of output_dict comes from the first keymap set: it is the output of
\* the last first-set entry for that key code and keymap index, or '-1'.
C1_OnlyFirstKeymapSet ==
    (pc = "done" /\ Cardinality(KeymapSets) >= 2) =>
        /\ \A n \in 1..Len(output_list) :
                key_list[output_list[n]][1] = FirstKeymapSet
        /\ \A c \in DOMAIN output_dict : \A k \in DOMAIN output_dict[c] :
                output_dict[c][k] =
                    IF FirstSetEntries(c, k) = {} THEN NotDefined
                    ELSE keyOutput(key_list[Last(FirstSetEntries(c, k))])

\* The action ids with a none-state entry of kind output and one of kind next.
OutputAndNext ==
    {a \in {tree.whens[n].id : n \in 1..Len(tree.whens)} :
        /\ \E n \in 1..Len(tree.whens) :
            /\ tree.whens[n].id = a
            /\ tree.whens[n].state = "none" /\ tree.whens[n].attr = "output"
        /\ \E n \in 1..Len(tree.whens) :
            /\ tree.whens[n].id = a
            /\ tree.whens[n].state = "none" /\ tree.whens[n].attr = "next"}

\* The target state of the last none-state next entry of action a.
NextTarget(a) ==
    tree.whens[Last({n \in 1..Len(tree.whens) :
        /\ tree.whens[n].id = a
        /\ tree.whens[n].state = "none" /\ tree.whens[n].attr = "next"})].value

\* C2: an action id with both a none-state output entry and a none-state
\* next entry whose target state is a registered dead-key state is mapped by
\* action_basekeys, once matchActions has run, to the dead key of that state,
\* and after findOutputs the keys that refer to it carry that dead key.
C2_DeadKeyPrecedence ==
    \A a \in OutputAndNext :
        NextTarget(a) \in DOMAIN deadkeys =>
            /\ AfterMatchActions => /\ a \in DOMAIN action_basekeys
                                    /\ action_basekeys[a] = deadkeys[NextTarget(a)]
            /\ AfterFindOutputs =>
                    \A n \in 1..Len(tree.keys) :
                        (tree.keys[n].attr = "action" /\ tree.keys[n].value = a)
                            => key_list[n][5] = deadkeys[NextTarget(a)]

\* The keys whose action reference never resolves.
Unresolved ==
    {n \in 1..Len(tree.keys) :
        /\ tree.keys[n].attr = "action"
        /\ ~InList(tree.keys[n].value, empty_actions)
        /\ tree.keys[n].value \notin DOMAIN action_basekeys}

\* C3: a key whose action reference is neither an empty action nor in
\* action_basekeys is left unchanged by findOutputs, and a getOutput lookup
\* of its key code under the label assigned to its keymap index returns '-1'.
C3_UnresolvedReadsNotDefined ==
    \A n \in Unresolved :
        /\ AfterFindOutputs =>
                key_list[n] = <<tree.keys[n].id, tree.keys[n].index,
                                tree.keys[n].code, "action", tree.keys[n].value>>
        /\ (/\ pc = "done"
            /\ Len(lookup) = 3
            /\ lookup[1] = tree.keys[n].code
            /\ lookup[2] \in DOMAIN keymap_assignments
            /\ keymap_assignments[lookup[2]] = tree.keys[n].index
            /\ FirstSetEntries(tree.keys[n].code, tree.keys[n].index) = {n})
           => lookup[3] = NotDefined

\* The dead-key actions: a none-state output of the space codepoint and at
\* least one entry with another result.
IsSpaceEntry(w) == w.state = "none" /\ w.attr = "output" /\ w.value = Space

DeadKeyActions ==
    {a \in {tree.whens[n].id : n \in 1..Len(tree.whens)} :
        /\ \E n \in 1..Len(tree.whens) :
                tree.whens[n].id = a /\ IsSpaceEntry(tree.whens[n])
        /\ \E n \in 1..Len(tree.whens) :
                tree.whens[n].id = a /\ tree.whens[n].value # Space}

\* C4 as stated: after findDeadkeys every state in which a dead-key action
\* has a non-space result is in deadkeys, whatever the order of the entries.
C4_EveryStateAnyOrder ==
    AfterFindDeadkeys =>
        \A n \in 1..Len(tree.whens) :
            (tree.whens[n].id \in DeadKeyActions /\ tree.whens[n].value # Space)
                => tree.whens[n].state \in DOMAIN deadkeys

\* The entries declared while their action is the dead-key candidate: the
\* last none-state space entry before entry n belongs to the same action.
FollowsSpaceEntry(n) ==
    LET before == {m \in 1..(n - 1) : IsSpaceEntry(tree.whens[m])}
    IN  before # {} /\ tree.whens[Last(before)].id = tree.whens[n].id

\* C4 (amended): after findDeadkeys deadkeys has an entry for every state
\* in which a dead-key action has a non-space result in an entry declared
\* after the none-state space entry of that action, no none-state space
\* entry of another action lying in between.
C4_EveryStateAfterSpaceEntry ==
    AfterFindDeadkeys =>
        \A n \in 1..Len(tree.whens) :
            (/\ tree.whens[n].id \in DeadKeyActions
             /\ tree.whens[n].value # Space
             /\ FollowsSpaceEntry(n))
                => tree.whens[n].state \in DOMAIN deadkeys

C4_Witness ==
    /\ pc = "matchActions"
    /\ \E n \in 1..Len(tree.whens) :
        /\ tree.whens[n].id \in DeadKeyActions
        /\ tree.whens[n].value # Space
        /\ tree.whens[n].attr = "next"
        /\ FollowsSpaceEntry(n)
        /\ tree.whens[n].state \in DOMAIN deadkeys
    /\ \E n \in 1..Len(tree.whens) :
        /\ tree.whens[n].id \in DeadKeyActions
        /\ tree.whens[n].value # Space
        /\ ~FollowsSpaceEntry(n)

\* C5: the pipeline and the lookups never raise.
C5_NeverRaises == pc # "raised" /\ err = "none"

\* C6 as stated: the circumflex layout ends with deadkeys mapping the
\* owning state to 0302 and key_dict mapping 0302 to [(0061, 00e2)].
C6_CircumflexOnlyBasePair ==
    (pc = "done" /\ tree.whens \in CircumflexOrders) =>
        /\ "s1" \in DOMAIN deadkeys /\ deadkeys["s1"] = "0302"
        /\ "0302" \in DOMAIN key_dict
        /\ key_dict["0302"] = << <<"0061", "00e2">> >>

PositionOf(w) == CHOOSE n \in 1..Len(tree.whens) : tree.whens[n] = w

\* C6 (amended): the circumflex layout, whose state s1 is declared by the
\* space action (none-state output 0020, then output 0302 in s1), ends with
\* deadkeys mapping s1 to 0302 and key_dict mapping 0302 to the two pairs
\* (0020, 0302) and (0061, 00e2), in the order in which the s1 entries of
\* the space action and of the base action are declared.
C6_CircumflexWithSpacePair ==
    (pc = "done" /\ tree.whens \in CircumflexOrders) =>
        /\ deadkeys = [s \in {"s1"} |-> "0302"]
        /\ DOMAIN key_dict = {"0302"}
        /\ key_dict["0302"] =
            IF PositionOf(Circumflex[2]) < PositionOf(Circumflex[4])
            THEN << <<Space, "0302">>, <<"0061", "00e2">> >>
            ELSE << <<"0061", "00e2">>, <<Space, "0302">> >>

C6_Witness ==
    /\ pc = "done"
    /\ tree.whens \in CircumflexOrders
    /\ PositionOf(Circumflex[4]) < PositionOf(Circumflex[2])
    /\ key_dict["0302"] = << <<"0061", "00e2">>, <<Space, "0302">> >>

\* C7: in a layout with one keymap set and unique (key code, keymap index)
\* pairs, a key bound to a literal codepoint has that codepoint, without
\* dead-key marker, in output_dict after findOutputs and makeOutputDict.
C7_LiteralUnchanged ==
    (/\ pc = "done"
     /\ Cardinality(KeymapSets) = 1
     /\ Unique(tree.keys)) =>
        \A n \in 1..Len(tree.keys) :
            tree.keys[n].attr = "output" =>
                /\ tree.keys[n].code \in DOMAIN output_dict
                /\ tree.keys[n].index \in DOMAIN output_dict[tree.keys[n].code]
                /\ output_dict[tree.keys[n].code][tree.keys[n].index]
                        = tree.keys[n].value

\* C8: a single modifier-state slot, whatever its flag set, is assigned to
\* at most one canonical label.
C8_AtMostOneLabel ==
    (pc # "parse" /\ Len(tree.modifiers) = 1) =>
        Cardinality(DOMAIN keymap_assignments) <= 1

C8_Witness ==
    /\ pc = "findDeadkeys"
    /\ Len(tree.modifiers) = 1
    /\ tree.modifiers[1].keys = {"command", "caps", "anyShift?"}
    /\ DOMAIN keymap_assignments = {"cmdcaps"}

\* The table of section 4.1: minimal required and maximal allowed flags.
Section41 ==
    [default   |-> <<{}, {"command?", "caps?"}>>,
     shift     |-> <<{"anyShift"}, {"anyShift", "caps?", "command?"}>>,
     alt       |-> <<{"anyOption"}, {"anyOption", "caps?", "command?"}>>,
     altshift  |-> <<{"anyShift", "anyOption"},
                     {"anyShift", "anyOption", "caps?", "command?"}>>,
     cmd       |-> <<{"command"}, {"command", "caps?", "anyShift?", "anyOption?"}>>,
     caps      |-> <<{"caps"}, {"caps", "anyShift?", "command?"}>>,
     cmdcaps   |-> <<{"command", "caps"}, {"command", "caps", "anyShift?"}>>,
     shiftcaps |-> <<{"anyShift", "caps"}, {"anyShift", "caps", "anyOption?"}>>]

\* The slots whose flag set qualifies for label L.
Qualifying(L) ==
    {n \in 1..Len(tree.modifiers) :
        /\ Section41[L][1] \subseteq tree.modifiers[n].keys
        /\ tree.modifiers[n].keys \subseteq Section41[L][2]}

\* C9: after the classifier has run, keymap_assignments has an entry for a
\* label iff some slot qualifies for it, and the entry is the keymap index
\* of the last qualifying slot.
C9_LastQualifyingSlot ==
    pc # "parse" =>
        /\ DOMAIN keymap_assignments = {L \in DOMAIN Section41 : Qualifying(L) # {}}
        /\ \A L \in DOMAIN keymap_assignments :
                keymap_assignments[L] = tree.modifiers[Last(Qualifying(L))].mapIndex

C9_Witness ==
    /\ pc = "findDeadkeys"
    /\ Len(tree.modifiers) = 3
    /\ Cardinality(Qualifying("shift")) = 2
    /\ \E n \in 1..3 : \A L \in DOMAIN Section41 : n \notin Qualifying(L)
    /\ \E n \in Qualifying("shift") :
            tree.modifiers[n].mapIndex # keymap_assignments["shift"]
    /\ DOMAIN keymap_assignments = {"shift"}

\* C10: getOutput returns '-1' when the label is not assigned or the key
\* has no entry for the assigned keymap index, the stored output otherwise,
\* and a lookup leaves every table as it is.
C10_GetOutput ==
    /\ [](Len(lookup) = 3 =>
            /\ lookup[1] \in DOMAIN output_dict
            /\ lookup[3] =
                IF lookup[2] \notin DOMAIN keymap_assignments
                THEN NotDefined
                ELSE IF keymap_assignments[lookup[2]]
                            \notin DOMAIN output_dict[lookup[1]]
                     THEN NotDefined
                     ELSE output_dict[lookup[1]][keymap_assignments[lookup[2]]])
    /\ [][lookup' # lookup => fields' = fields]_vars

C10_Witness ==
    /\ Len(lookup) = 3
    /\ lookup[2] \notin DOMAIN keymap_assignments
    /\ lookup[3] = NotDefined
    /\ \E k \in DOMAIN output_dict[lookup[1]] :
            output_dict[lookup[1]][k] # NotDefined
    /\ \E L \in DOMAIN keymap_assignments :
            getOutput(keymap_assignments, output_dict[lookup[1]], L) # NotDefined

\* The pairs (action_basekeys[action id], result) of the records from n
\* on whose action id is in action_basekeys and whose state maps to glyph g
\* in deadkeys, in encounter order.
RECURSIVE EligiblePairs(_, _)
EligiblePairs(g, n) ==
    IF n > Len(action_list) THEN <<>>
    ELSE LET i == action_list[n]
         IN  IF /\ i[1] \in DOMAIN action_basekeys
                /\ i[2] \in DOMAIN deadkeys
                /\ deadkeys[i[2]] = g
             THEN << <<action_basekeys[i[1]], i[4]>> >> \o EligiblePairs(g, n + 1)
             ELSE EligiblePairs(g, n + 1)

Glyphs == {deadkeys[st] : st \in DOMAIN deadkeys}

\* C12: after matchActions and makeDeadKeyTable, key_dict maps a glyph g to
\* the pairs (action_basekeys[action id], result), in encounter order, of
\* the records whose action id is in action_basekeys and whose state maps
\* to g in deadkeys, and no other record contributes a pair.
C12_CompositionList ==
    AfterMakeDeadKeyTable =>
        /\ DOMAIN key_dict = {g \in Glyphs : EligiblePairs(g, 1) # <<>>}
        /\ \A g \in DOMAIN key_dict : key_dict[g] = EligiblePairs(g, 1)

\* C14: after makeDeadKeyTable the keys of key_dict are the glyphs of
\* deadkeys, each with a non-empty composition list.
C14_KeysAreGlyphs ==
    AfterMakeDeadKeyTable =>
        /\ DOMAIN key_dict = Glyphs
        /\ \A g \in DOMAIN key_dict : Len(key_dict[g]) >= 1

C14_Witness ==
    /\ pc = "makeOutputDict"
    /\ Cardinality(DOMAIN deadkeys) = 2
    /\ Cardinality(Glyphs) = 2
    /\ DOMAIN key_dict = Glyphs
    /\ \E g \in Glyphs : key_dict[g] = << <<Space, g>> >>

----------------------------------------------------------------------------
\* C13: running findOutputs and then makeOutputDict a second time on the
\* same instance, with action_basekeys, empty_actions and
\* keymap_assignments unchanged, yields an output_dict identical to the
\* one after the first run.  findOutputs leaves output_dict alone, so
\* the table entering the second makeOutputDict is that of the first run.
C13_RerunSameOutputDict ==
    [][(pc = "makeOutputDict2" /\ pc' = "done2") =>
            output_dict' = output_dict]_vars

----------------------------------------------------------------------------
\* The rows of output that open a key, and the output of the key of row n
\* under a canonical label.
MainRows == {n \in 1..Len(output) : output[n][1] # "-1"}
RowOutput(n, label) ==
    getOutput(keymap_assignments,
              output_dict[win_to_mac_keycodes[int16[output[n][1]]]], label)
HasSecondRow(n) == n + 1 <= Len(output) /\ output[n + 1][1] = "-1"

\* C11: for every key emitted by writeKeyTable the caps flag is '0' iff its
\* caps output equals its default output, '1' iff its caps output differs
\* from its default output and equals its shift output, and 'SGCap' iff it
\* differs from both; the key has a second row, holding its caps output
\* and its shiftcaps output, iff it is flagged 'SGCap'.
C11_CapsFlag ==
    pc = "written" =>
        /\ \A n \in MainRows :
            LET flag == output[n][4]
                default_output == RowOutput(n, "default")
                shift_output == RowOutput(n, "shift")
                caps_output == RowOutput(n, "caps")
            IN  /\ flag = "0" <=> caps_output = default_output
                /\ flag = "1" <=> /\ caps_output # default_output
                                  /\ caps_output = shift_output
                /\ flag = "SGCap" <=> /\ caps_output # default_output
                                      /\ caps_output # shift_output
                /\ HasSecondRow(n) <=> flag = "SGCap"
                /\ HasSecondRow(n) =>
                        /\ output[n + 1][5] = caps_output
                        /\ output[n + 1][6] = RowOutput(n, "shiftcaps")
        /\ \A n \in 1..Len(output) : n \notin MainRows => n - 1 \in MainRows

\* A table with an SGCap key, whose caps output is a glyph of its own, and
\* a key whose caps output is its shift output.
C11_Witness ==
    /\ pc = "written"
    /\ Len(output) = 3
    /\ output[1][4] = "SGCap"
    /\ output[2][1] = "-1" /\ output[2][5] = "0041" /\ output[2][6] = "0061"
    /\ output[3][4] = "1" /\ output[3][6] = "0041"

====
